---------------------------- MODULE Spec2Model ----------------------------
(***************************************************************************)
(* The Dapp Punks NFT contract (contracts/NFT.sol) as a state machine.     *)
(*                                                                         *)
(* One call step of the model is one transaction against the contract: the *)
(* EVM runs a call to completion, and a failed require (or a checked-      *)
(* arithmetic panic) reverts every effect of the call, the ether sent with *)
(* it included.  Each entry point is computed the way its code runs: the   *)
(* body is evaluated statement by statement on a copy of the world, and    *)
(* Revert decides whether the copy or the world before the call stands.    *)
(*                                                                         *)
(* uint256 is scaled down to WordBits bits; the quantities the contract    *)
(* multiplies and adds are drawn from sets that contain MaxUint, so that   *)
(* the checked arithmetic of Solidity ^0.8 is exercised.                   *)
(*                                                                         *)
(* _safeMint hands control to a contract recipient (onERC721Received).     *)
(* The recipient Vault may accept, reject, or call mint again from inside  *)
(* the callback; the nested call is one level deep and its own callbacks   *)
(* accept.  withdraw hands control to its caller the same way (the ether   *)
(* is sent with call, all gas forwarded).  The deploying account is an     *)
(* externally owned account, which takes the ether, or a contract (a       *)
(* factory, a multisig) whose receive function may take the ether, reject  *)
(* it, or call withdraw, setCost or mint again before it takes it.         *)
(*                                                                         *)
(* Strings are sequences of one-character strings, so that tokenURI        *)
(* concatenates and Strings.toString converts digit by digit.              *)
(***************************************************************************)
EXTENDS Integers, Sequences, FiniteSets, TLC

\* ------------------------------------------------------------------ bounds
WordBits == 4          \* width of the scaled-down uint256
SupplyCap == 2         \* largest _maxSupply a deployment is given
MaxTime == 1           \* block.timestamp runs over 0..MaxTime
InitialFunds == 2      \* ether the minter's wallet starts with
MaxLoads == 2          \* data loads of the client in flight at once
MaxHandlers == 2       \* mintHandler invocations of the client in flight at once
MaxLog == 2            \* withdraw is called while the log has room for its events

MaxUint == 2 ^ WordBits - 1

\* --------------------------------------------------------------- accounts
NFTContract == "nft"                    \* address(this)
ZeroAddress == "0x0"                    \* address(0): the owner of no token
Deployer == "deployer"                  \* the deploying account, with or without code
Minter == "minter"
Vault == "vault"                        \* a contract account: _safeMint calls it back
Accounts == {Deployer, Minter, Vault}
IsContract(a) == a = Vault
\* Ownable's constructor makes another account than the deploying one the owner.
InitialOwnerOther == Minter
\* Ownable's constructor makes the deploying account the owner.
InitialOwner == Deployer

Ids == 0 .. (2 * SupplyCap + 1)         \* token ids the ownership mapping is read at
MintAmounts == (0 .. SupplyCap) \cup {MaxUint}
Costs == {0, 1, MaxUint}                \* the prices tried: free, unit, the largest word

\* What the recipient's onERC721Received does: at the at-th token of the
\* call it rejects the token, or first calls mint(1) itself.
NoCallback == [at |-> 0, act |-> "accept", amount |-> 0]
Callbacks(sender) ==
    IF IsContract(sender)
    THEN {NoCallback}
         \cup {[at |-> i, act |-> "reject", amount |-> 0] : i \in 1 .. SupplyCap}
         \cup {[at |-> i, act |-> "reenter", amount |-> 1] : i \in 1 .. SupplyCap}
    ELSE {NoCallback}

\* What the account withdraw pays does with the ether: an externally owned
\* account takes it; the receive function of a contract takes it, rejects it,
\* or first calls withdraw, setCost(amount) or mint(1) itself.  Only the
\* deploying account is ever paid.
Receives(sender) ==
    IF sender = Deployer
    THEN {NoCallback}
         \cup {[at |-> 0, act |-> "reject", amount |-> 0]}
         \cup {[at |-> 0, act |-> "withdraw", amount |-> 0]}
         \cup {[at |-> 0, act |-> "setCost", amount |-> c] : c \in Costs}
         \cup {[at |-> 0, act |-> "mint", amount |-> 1]}
    ELSE {NoCallback}

\* The ids and the accounts the read-only entry points are asked about.
QueryIds == (0 .. (SupplyCap + 1)) \cup {MaxUint}
QueryAccounts == Accounts

\* What the constructor is given for the metadata location, and what the
\* declaration of baseExtension sets.
DeployedBaseURI == <<"i", "p", "f", "s", ":", "/", "/", "Q", "m", "/">>
DeployedBaseExtension == <<".", "j", "s", "o", "n">>
\* Minting opens this long after the deployment, which happens at time 0.
OpensAfter == 1

\* The characters of a decimal numeral, by digit value.
DigitChars == <<"0", "1", "2", "3", "4", "5", "6", "7", "8", "9">>
\* ----------------------------------------------------------- error kinds
Ok == "ok"
None == "none"
MintingNotYetOpen == "Minting not yet allowed"
InvalidQuantity == "Must mint at least 1 NFT"
InsufficientPayment == "Insufficient payment"
SupplyExceeded == "Would exceed max supply"
ArithmeticPanic == "Panic(0x11)"
AlreadyMinted == "ERC721: token already minted"
ReceiverRejected == "ERC721: transfer to non ERC721Receiver implementer"
Unauthorized == "Ownable: caller is not the owner"
TransferFailed == "Withdrawal failed"
UnknownToken == "Token does not exist"
IndexOutOfBounds == "ERC721Enumerable: owner index out of bounds"

\* ------------------------------------------------------------------ state
VARIABLES
    baseURI,         \* string public baseURI
    baseExtension,   \* string public baseExtension = ".json"
    cost,            \* uint256 public cost
    maxSupply,       \* uint256 public maxSupply
    allowMintingOn,  \* uint256 public allowMintingOn
    owner,           \* Ownable: the privileged account
    owners,          \* ERC721: token id -> owner (ZeroAddress: not minted)
    ownedTokens,     \* ERC721Enumerable: account -> ids in enumeration order
    allTokens,       \* ERC721Enumerable: every id, in issue order
    balance,         \* ether held by each account and by the contract
    log,             \* the events emitted so far
    timestamp,       \* block.timestamp
    last,            \* the call made in the latest step, the world before it, how it ended
    mintCalls,       \* history: the successful mint calls, in the order they started
    received,        \* history: sum of msg.value over the successful mint calls
    withdrawn,       \* history: sum of the amounts paid out by successful withdraw calls
    ethereum,        \* client: window.ethereum is present
    wallet,          \* client: the account the wallet exposes to the page (None: none)
    app,             \* client: the state of the App component
    form,            \* client: the Mint component's isWaiting and the mintHandler invocations
    loads,           \* client: the loadBlockchainData calls in flight
    nodeDown         \* client: the node behind the provider answers no call

vars == <<baseURI, baseExtension, cost, maxSupply, allowMintingOn, owner, owners,
          ownedTokens, allTokens, balance, log, timestamp, last, mintCalls, received,
          withdrawn, ethereum, wallet, app, form, loads, nodeDown>>

\* The state of the page in the browser.
client == <<ethereum, wallet, app, form, loads, nodeDown>>

\* What the constructor sets and no function of the contract assigns.
config == <<baseURI, baseExtension, maxSupply, allowMintingOn, owner>>

\* The part of the state a call body works on and a revert restores; inner is
\* the outcome of the mint call made from inside a callback, if any.
World == [owners |-> owners, ownedTokens |-> ownedTokens, allTokens |-> allTokens,
          balance |-> balance, log |-> log, cost |-> cost,
          mintCalls |-> mintCalls, received |-> received, withdrawn |-> withdrawn,
          inner |-> None]

EmptyWorld == [owners |-> [id \in Ids |-> ZeroAddress],
               ownedTokens |-> [a \in Accounts |-> <<>>],
               allTokens |-> <<>>,
               balance |-> [a \in Accounts \cup {NFTContract} |-> 0],
               log |-> <<>>, cost |-> 0,
               mintCalls |-> <<>>, received |-> 0, withdrawn |-> 0, inner |-> None]

NoCall == [op |-> None, caller |-> ZeroAddress, amount |-> 0, value |-> 0,
           cb |-> NoCallback, result |-> Ok, inner |-> None, ret |-> <<>>,
           pre |-> EmptyWorld]

totalSupply(w) == Len(w.allTokens)
_exists(w, id) == id \in Ids /\ w.owners[id] # ZeroAddress

\* ------------------------------------------------------- call semantics
\* A failed call whose effects stay.
RevertKeepsEffects(pre, r) == r.w
\* A call that ends in an error leaves the world as it was before the call.
Revert(pre, r) == IF r.err = Ok THEN r.w ELSE pre

\* msg.value moves from the caller to the contract when the call starts.
Pay(w, from, value) ==
    [w EXCEPT !.balance = [@ EXCEPT ![from] = @ - value, ![NFTContract] = @ + value]]

\* ERC721._mint with the ERC721Enumerable bookkeeping.
_mint(w, to, tokenId) ==
    [w EXCEPT !.owners = [@ EXCEPT ![tokenId] = to],
              !.ownedTokens = [@ EXCEPT ![to] = Append(@, tokenId)],
              !.allTokens = Append(@, tokenId)]

\* The time gate opening one time unit early.
TimeGateOffByOne(now) == now + 1 >= allowMintingOn
\* The time gate closing again once a token has been issued.
TimeGateUntilFirstToken(now) == now >= allowMintingOn /\ allTokens = <<>>
\* require(block.timestamp >= allowMintingOn)
TimeGate(now) == now >= allowMintingOn
\* require(_mintAmount > 0)
QuantityOk(mintAmount) == mintAmount > 0
\* The payment check against the price of one token.
PaymentOkForOne(w, value, mintAmount) == value >= w.cost
\* require(msg.value >= cost * _mintAmount)
PaymentOk(w, value, mintAmount) == value >= w.cost * mintAmount
\* The supply check with the quantity left out.
SupplyOkIgnoringAmount(supply, mintAmount) == supply <= maxSupply
\* The supply check letting one token past the cap.
SupplyOkOffByOne(supply, mintAmount) == supply + mintAmount <= maxSupply + 1
\* The supply check comparing the quantity alone with the cap.
SupplyOkForgettingSupply(supply, mintAmount) == mintAmount <= maxSupply
\* The supply check refusing the last token.
SupplyOkStrict(supply, mintAmount) == supply + mintAmount < maxSupply
\* require(supply + _mintAmount <= maxSupply)
SupplyOk(supply, mintAmount) == supply + mintAmount <= maxSupply
\* The loop counting from 0.
FirstIndexZero == 1 - 1
\* for(uint256 i = 1; ...
FirstIndex == 1

RECURSIVE EmitMintPerToken(_, _, _)
\* The emit made once for each token.
EmitMintPerToken(w, mintAmount, sender) ==
    IF mintAmount = 0 THEN w
    ELSE EmitMintPerToken([w EXCEPT !.log = Append(@, [event |-> "Mint", amount |-> 1,
                                                       account |-> sender])],
                          mintAmount - 1, sender)

\* The emit with the total price stored into cost on the way.
EmitMintStoringTotal(w, mintAmount, sender) ==
    [w EXCEPT !.log = Append(@, [event |-> "Mint", amount |-> mintAmount, account |-> sender]),
              !.cost = @ * mintAmount]

\* emit Mint(_mintAmount, msg.sender)
EmitMint(w, mintAmount, sender) ==
    [w EXCEPT !.log = Append(@, [event |-> "Mint", amount |-> mintAmount, account |-> sender])]

\* History of a mint call that got past its four checks: entered where the
\* call started, kept only if the call does not revert.
NoteMint(w, sender, mintAmount, value) ==
    [w EXCEPT !.mintCalls = Append(@, [account |-> sender, amount |-> mintAmount]),
              !.received = @ + value]

RECURSIVE mint(_, _, _, _, _, _), MintLoop(_, _, _, _, _, _, _), _safeMint(_, _, _, _, _, _)

\* _safeMint over a _mint that does not require the id to be new.
_safeMintAgain(w, to, tokenId, i, now, cb) ==
    LET m == _mint(w, to, tokenId)
    IN  IF ~IsContract(to) \/ cb.at # i THEN [err |-> Ok, w |-> m]
        ELSE IF cb.act = "reject" THEN [err |-> ReceiverRejected, w |-> m]
        ELSE IF cb.act = "reenter"
             THEN LET n == mint(m, to, cb.amount, 0, now, NoCallback)
                  IN  [err |-> Ok, w |-> [Revert(m, n) EXCEPT !.inner = n.err]]
        ELSE [err |-> Ok, w |-> m]

\* ERC721._safeMint: mint, then ask a contract recipient to accept the token.
\* The recipient runs before _safeMint returns and may call mint itself; it
\* swallows a failure of that nested call and accepts the token.
_safeMint(w, to, tokenId, i, now, cb) ==
    IF _exists(w, tokenId) THEN [err |-> AlreadyMinted, w |-> w]
    ELSE LET m == _mint(w, to, tokenId)
         IN  IF ~IsContract(to) \/ cb.at # i THEN [err |-> Ok, w |-> m]
             ELSE IF cb.act = "reject" THEN [err |-> ReceiverRejected, w |-> m]
             ELSE IF cb.act = "reenter"
                  THEN LET n == mint(m, to, cb.amount, 0, now, NoCallback)
                       IN  [err |-> Ok, w |-> [Revert(m, n) EXCEPT !.inner = n.err]]
             ELSE [err |-> Ok, w |-> m]

\* The loop stopping one token short (i < _mintAmount).
MintLoopOneShort(w, sender, supply, i, mintAmount, now, cb) ==
    IF i >= mintAmount THEN [err |-> Ok, w |-> w]
    ELSE LET r == _safeMint(w, sender, supply + i, i, now, cb)
         IN  IF r.err # Ok THEN r
             ELSE MintLoop(r.w, sender, supply, i + 1, mintAmount, now, cb)

\* The loop numbering its tokens from supply + 2.
MintLoopSkipping(w, sender, supply, i, mintAmount, now, cb) ==
    IF i > mintAmount THEN [err |-> Ok, w |-> w]
    ELSE LET r == _safeMint(w, sender, supply + i + 1, i, now, cb)
         IN  IF r.err # Ok THEN r
             ELSE MintLoop(r.w, sender, supply, i + 1, mintAmount, now, cb)

\* The loop taking each id from the supply of the moment.
MintLoopFreshSupply(w, sender, supply, i, mintAmount, now, cb) ==
    IF i > mintAmount THEN [err |-> Ok, w |-> w]
    ELSE LET r == _safeMint(w, sender, totalSupply(w) + 1, i, now, cb)
         IN  IF r.err # Ok THEN r
             ELSE MintLoop(r.w, sender, supply, i + 1, mintAmount, now, cb)

\* for(uint256 i = 1; i <= _mintAmount; i++) _safeMint(msg.sender, supply + i);
MintLoop(w, sender, supply, i, mintAmount, now, cb) ==
    IF i > mintAmount THEN [err |-> Ok, w |-> w]
    ELSE LET r == _safeMint(w, sender, supply + i, i, now, cb)
         IN  IF r.err # Ok THEN r
             ELSE MintLoop(r.w, sender, supply, i + 1, mintAmount, now, cb)

\* mint with the supply check made before the payment check.
mintSupplyFirst(w0, sender, mintAmount, value, now, cb) ==
    LET w == Pay(w0, sender, value)
        supply == totalSupply(w)
    IN  IF ~TimeGate(now) THEN [err |-> MintingNotYetOpen, w |-> w]
        ELSE IF ~QuantityOk(mintAmount) THEN [err |-> InvalidQuantity, w |-> w]
        ELSE IF supply + mintAmount > MaxUint THEN [err |-> ArithmeticPanic, w |-> w]
        ELSE IF ~SupplyOk(supply, mintAmount) THEN [err |-> SupplyExceeded, w |-> w]
        ELSE IF w.cost * mintAmount > MaxUint THEN [err |-> ArithmeticPanic, w |-> w]
        ELSE IF ~PaymentOk(w, value, mintAmount) THEN [err |-> InsufficientPayment, w |-> w]
        ELSE LET r == MintLoop(NoteMint(w, sender, mintAmount, value), sender,
                                supply, FirstIndex, mintAmount, now, cb)
             IN  IF r.err # Ok THEN r
                 ELSE [err |-> Ok, w |-> EmitMint(r.w, mintAmount, sender)]

\* mint sending the excess over cost * _mintAmount back to the caller.
mintRefundingExcess(w0, sender, mintAmount, value, now, cb) ==
    LET w == Pay(w0, sender, value)
    IN  IF ~TimeGate(now) THEN [err |-> MintingNotYetOpen, w |-> w]
        ELSE IF ~QuantityOk(mintAmount) THEN [err |-> InvalidQuantity, w |-> w]
        ELSE IF w.cost * mintAmount > MaxUint THEN [err |-> ArithmeticPanic, w |-> w]
        ELSE IF ~PaymentOk(w, value, mintAmount) THEN [err |-> InsufficientPayment, w |-> w]
        ELSE LET supply == totalSupply(w)
                 price == w.cost * mintAmount
                 kept == Pay(w0, sender, price)
             IN  IF supply + mintAmount > MaxUint THEN [err |-> ArithmeticPanic, w |-> w]
                 ELSE IF ~SupplyOk(supply, mintAmount) THEN [err |-> SupplyExceeded, w |-> w]
                 ELSE LET r == MintLoop(NoteMint(kept, sender, mintAmount, price), sender,
                                         supply, FirstIndex, mintAmount, now, cb)
                      IN  IF r.err # Ok THEN r
                          ELSE [err |-> Ok, w |-> EmitMint(r.w, mintAmount, sender)]

\* mint with the product and the sum taken modulo 2^WordBits, as unchecked
\* arithmetic would.
mintWrapping(w0, sender, mintAmount, value, now, cb) ==
    LET w == Pay(w0, sender, value)
    IN  IF ~TimeGate(now) THEN [err |-> MintingNotYetOpen, w |-> w]
        ELSE IF ~QuantityOk(mintAmount) THEN [err |-> InvalidQuantity, w |-> w]
        ELSE IF ~(value >= (w.cost * mintAmount) % (MaxUint + 1))
             THEN [err |-> InsufficientPayment, w |-> w]
        ELSE LET supply == totalSupply(w)
             IN  IF ~((supply + mintAmount) % (MaxUint + 1) <= maxSupply)
                 THEN [err |-> SupplyExceeded, w |-> w]
                 ELSE LET r == MintLoop(NoteMint(w, sender, mintAmount, value), sender,
                                         supply, FirstIndex, mintAmount, now, cb)
                      IN  IF r.err # Ok THEN r
                          ELSE [err |-> Ok, w |-> EmitMint(r.w, mintAmount, sender)]

\* function mint(uint256 _mintAmount) public payable; the result carries the
\* world as the body left it, whether or not the call then reverts.
mint(w0, sender, mintAmount, value, now, cb) ==
    LET w == Pay(w0, sender, value)
    IN  IF ~TimeGate(now) THEN [err |-> MintingNotYetOpen, w |-> w]
        ELSE IF ~QuantityOk(mintAmount) THEN [err |-> InvalidQuantity, w |-> w]
        ELSE IF w.cost * mintAmount > MaxUint THEN [err |-> ArithmeticPanic, w |-> w]
        ELSE IF ~PaymentOk(w, value, mintAmount) THEN [err |-> InsufficientPayment, w |-> w]
        ELSE LET supply == totalSupply(w)
             IN  IF supply + mintAmount > MaxUint THEN [err |-> ArithmeticPanic, w |-> w]
                 ELSE IF ~SupplyOk(supply, mintAmount) THEN [err |-> SupplyExceeded, w |-> w]
                 ELSE LET r == MintLoop(NoteMint(w, sender, mintAmount, value), sender,
                                         supply, FirstIndex, mintAmount, now, cb)
                      IN  IF r.err # Ok THEN r
                          ELSE [err |-> Ok, w |-> EmitMint(r.w, mintAmount, sender)]

onlyOwner(sender) == sender = owner

\* setCost without the onlyOwner modifier.
setCostByAnyone(w, sender, newCost) ==
    [err |-> Ok, w |-> [w EXCEPT !.cost = newCost]]

\* setCost refusing a price of zero.
setCostRejectingZero(w, sender, newCost) ==
    IF ~onlyOwner(sender) THEN [err |-> Unauthorized, w |-> w]
    ELSE IF newCost = 0 THEN [err |-> InsufficientPayment, w |-> w]
    ELSE [err |-> Ok, w |-> [w EXCEPT !.cost = newCost]]

\* function setCost(uint256 _newCost) public onlyOwner
setCost(w, sender, newCost) ==
    IF ~onlyOwner(sender) THEN [err |-> Unauthorized, w |-> w]
    ELSE [err |-> Ok, w |-> [w EXCEPT !.cost = newCost]]

RECURSIVE withdraw(_, _, _, _)

\* The code the paid account runs when call{value: balance}("") reaches it.
\* A contract that calls back into the NFT contract swallows a failure of
\* that nested call and keeps the ether; a nested mint pays the price of one
\* token when the account holds it.
receive(w, to, now, cb) ==
    IF cb.act = "reject" THEN [err |-> ReceiverRejected, w |-> w]
    ELSE IF cb.act = "withdraw"
         THEN LET n == withdraw(w, to, now, NoCallback)
              IN  [err |-> Ok, w |-> [Revert(w, n) EXCEPT !.inner = n.err]]
    ELSE IF cb.act = "setCost"
         THEN LET n == setCost(w, to, cb.amount)
              IN  [err |-> Ok, w |-> [Revert(w, n) EXCEPT !.inner = n.err]]
    ELSE IF cb.act = "mint"
         THEN LET value == IF w.balance[to] >= w.cost THEN w.cost ELSE 0
                  n == mint(w, to, cb.amount, value, now, NoCallback)
              IN  [err |-> Ok, w |-> [Revert(w, n) EXCEPT !.inner = n.err]]
    ELSE [err |-> Ok, w |-> w]

\* withdraw paying the owner without debiting the contract.
withdrawKeepingBalance(w, sender, now, cb) ==
    IF ~onlyOwner(sender) THEN [err |-> Unauthorized, w |-> w]
    ELSE LET bal == w.balance[NFTContract]
             sent == [w EXCEPT !.balance = [@ EXCEPT ![sender] = @ + bal]]
             r == receive(sent, sender, now, cb)
         IN  IF r.err # Ok THEN [err |-> TransferFailed, w |-> r.w]
             ELSE [err |-> Ok,
                   w |-> [r.w EXCEPT !.log = Append(@, [event |-> "Withdraw",
                                                        amount |-> bal,
                                                        account |-> sender]),
                                     !.withdrawn = @ + bal]]

\* withdraw without its emit.
withdrawSilently(w, sender, now, cb) ==
    IF ~onlyOwner(sender) THEN [err |-> Unauthorized, w |-> w]
    ELSE LET bal == w.balance[NFTContract]
             sent == [w EXCEPT !.balance = [@ EXCEPT ![NFTContract] = @ - bal,
                                                     ![sender] = @ + bal]]
             r == receive(sent, sender, now, cb)
         IN  IF r.err # Ok THEN [err |-> TransferFailed, w |-> r.w]
             ELSE [err |-> Ok, w |-> [r.w EXCEPT !.withdrawn = @ + bal]]

\* withdraw without require(success): a transfer the recipient rejected moves
\* no ether, and the function goes on to its emit.
withdrawUnchecked(w, sender, now, cb) ==
    IF ~onlyOwner(sender) THEN [err |-> Unauthorized, w |-> w]
    ELSE LET bal == w.balance[NFTContract]
             sent == [w EXCEPT !.balance = [@ EXCEPT ![NFTContract] = @ - bal,
                                                     ![sender] = @ + bal]]
             r == receive(sent, sender, now, cb)
             after == IF r.err # Ok THEN w ELSE [r.w EXCEPT !.withdrawn = @ + bal]
         IN  [err |-> Ok,
              w |-> [after EXCEPT !.log = Append(@, [event |-> "Withdraw",
                                                     amount |-> bal,
                                                     account |-> sender])]]

\* function withdraw() public onlyOwner
withdraw(w, sender, now, cb) ==
    IF ~onlyOwner(sender) THEN [err |-> Unauthorized, w |-> w]
    ELSE LET bal == w.balance[NFTContract]
             sent == [w EXCEPT !.balance = [@ EXCEPT ![NFTContract] = @ - bal,
                                                     ![sender] = @ + bal]]
             r == receive(sent, sender, now, cb)
         IN  IF r.err # Ok THEN [err |-> TransferFailed, w |-> r.w]
             ELSE [err |-> Ok,
                   w |-> [r.w EXCEPT !.log = Append(@, [event |-> "Withdraw",
                                                        amount |-> bal,
                                                        account |-> sender]),
                                     !.withdrawn = @ + bal]]

\* ------------------------------------------------------ read-only entry points
RECURSIVE Digits(_)
\* The decimal digits of a positive value, most significant first.
Digits(value) ==
    IF value = 0 THEN <<>>
    ELSE Digits(value \div 10) \o <<DigitChars[(value % 10) + 1]>>

\* Strings.toString(uint256)
toString(value) == IF value = 0 THEN <<"0">> ELSE Digits(value)

\* tokenURI without require(_exists(_tokenId)).
tokenURIUnchecked(w, tokenId) ==
    [err |-> Ok, ret |-> baseURI \o toString(tokenId) \o baseExtension]

\* function tokenURI(uint256 _tokenId) public view returns(string memory)
tokenURI(w, tokenId) ==
    IF ~_exists(w, tokenId) THEN [err |-> UnknownToken, ret |-> <<>>]
    ELSE [err |-> Ok, ret |-> baseURI \o toString(tokenId) \o baseExtension]

\* ERC721.balanceOf
balanceOf(w, a) == Len(w.ownedTokens[a])

\* ERC721Enumerable.tokenOfOwnerByIndex
tokenOfOwnerByIndex(w, a, index) ==
    IF index >= balanceOf(w, a) THEN [err |-> IndexOutOfBounds, ret |-> 0]
    ELSE [err |-> Ok, ret |-> w.ownedTokens[a][index + 1]]

RECURSIVE WalletLoop(_, _, _, _, _)
\* for(uint256 i; i < ownerTokenCount; i++) tokenIds[i] = tokenOfOwnerByIndex(_owner, i);
WalletLoop(w, a, i, ownerTokenCount, tokenIds) ==
    IF ~(i < ownerTokenCount) THEN [err |-> Ok, ret |-> tokenIds]
    ELSE LET t == tokenOfOwnerByIndex(w, a, i)
         IN  IF t.err # Ok THEN [err |-> t.err, ret |-> <<>>]
             ELSE WalletLoop(w, a, i + 1, ownerTokenCount,
                             [tokenIds EXCEPT ![i + 1] = t.ret])

\* walletOfOwner with its loop counting from 1.
walletOfOwnerFromOne(w, a) ==
    LET ownerTokenCount == balanceOf(w, a)
    IN  WalletLoop(w, a, 1, ownerTokenCount, [k \in 1 .. ownerTokenCount |-> 0])

\* function walletOfOwner(address _owner) public view returns(uint256[] memory)
walletOfOwner(w, a) ==
    LET ownerTokenCount == balanceOf(w, a)
    IN  WalletLoop(w, a, 0, ownerTokenCount, [k \in 1 .. ownerTokenCount |-> 0])

\* ---------------------------------------------------------------- actions
Commit(w) ==
    /\ owners' = w.owners
    /\ ownedTokens' = w.ownedTokens
    /\ allTokens' = w.allTokens
    /\ balance' = w.balance
    /\ log' = w.log
    /\ cost' = w.cost
    /\ mintCalls' = w.mintCalls
    /\ received' = w.received
    /\ withdrawn' = w.withdrawn

\* constructor(_name, _symbol, _cost, _maxSupply, _allowMintingOn, _baseURI),
\* deployed by Deployer one time unit before minting opens; Ownable makes
\* the deploying account the owner.
Deployed ==
    /\ baseURI = DeployedBaseURI
    /\ baseExtension = DeployedBaseExtension
    /\ cost \in Costs
    /\ maxSupply = SupplyCap
    /\ timestamp = 0
    /\ allowMintingOn = timestamp + OpensAfter
    /\ owner = InitialOwner
    /\ owners = [id \in Ids |-> ZeroAddress]
    /\ ownedTokens = [a \in Accounts |-> <<>>]
    /\ allTokens = <<>>
    /\ balance = [a \in Accounts \cup {NFTContract} |->
                    IF a = Minter THEN InitialFunds ELSE 0]
    /\ log = <<>>
    /\ last = NoCall
    /\ mintCalls = <<>>
    /\ received = 0
    /\ withdrawn = 0

\* ------------------------------------------------------------- the client
\* The accounts of the user's wallet.
WalletAccounts == {Deployer, Minter}
LoadSlots == 1 .. MaxLoads
\* The code MetaMask gives a request the user rejected.
UserRejected == 4001
\* error.message of a thrown value that has none.
NoMessage == "undefined"
\* What provider.getSigner, mint or transaction.wait may throw.
ErrorShapes == [code : {0, UserRejected},
                message : {NoMessage, "insufficient funds", "execution reverted", "other"}]

\* The awaits of loadBlockchainData, in order.
LoadAwaits == <<"eth_accounts", "allowMintingOn", "maxSupply", "totalSupply", "cost",
                "balanceOf", "walletOfOwner">>
NoLoad == [pc |-> 0, account |-> None]

\* const [..] = useState(..) of App; revealTime, a number at first, is kept
\* as the string parseInt reads.
InitialApp == [provider |-> FALSE, nft |-> FALSE, account |-> None,
               isWalletConnected |-> FALSE, revealTime |-> <<"0">>,
               maxSupply |-> 0, totalSupply |-> 0, cost |-> 0, balance |-> 0,
               ownedNFTs |-> <<>>, isLoading |-> TRUE]

HandlerSlots == 1 .. MaxHandlers
\* A mintHandler invocation: pc is where it stands, cost the prop it closed
\* over, live whether the Mint instance it belongs to is still mounted.
NoRun == [pc |-> "idle", cost |-> 0, live |-> FALSE]

\* const [isWaiting, setIsWaiting] = useState(false) of the mounted Mint
\* instance, and the invocations of mintHandler in flight.
InitialForm == [isWaiting |-> FALSE, runs |-> [h \in HandlerSlots |-> NoRun]]

\* App renders <Mint> only under !isLoading && isWalletConnected.
Shown(a) == ~a.isLoading /\ a.isWalletConnected

\* A render: when <Mint> leaves the page its state is dropped, and the
\* setIsWaiting of a handler still running no longer reaches a component.
Render(a, f) ==
    /\ app' = a
    /\ form' = IF Shown(a) THEN f
               ELSE [isWaiting |-> FALSE,
                     runs |-> [h \in HandlerSlots |-> [f.runs[h] EXCEPT !.live = FALSE]]]

FreeSlot(tasks) == \E i \in LoadSlots : tasks[i] = NoLoad

\* loadBlockchainData up to its first await: without window.ethereum it
\* returns at once; else it sets provider and nft and awaits eth_accounts,
\* or allowMintingOn when it was given the account.
loadBlockchainData(a, tasks, userAccount) ==
    IF ~ethereum THEN [app |-> a, loads |-> tasks]
    ELSE LET i == CHOOSE i \in LoadSlots : tasks[i] = NoLoad
         IN  [app |-> [a EXCEPT !.provider = TRUE, !.nft = TRUE],
              loads |-> [tasks EXCEPT ![i] =
                            [pc |-> IF userAccount = None THEN 1 ELSE 2,
                             account |-> userAccount]]]

\* useEffect(() => { if (isLoading) loadBlockchainData() }, [isLoading]),
\* run after a render from the state before a to the state a.
isLoadingEffect(before, a, tasks) ==
    IF a.isLoading /\ ~before THEN loadBlockchainData(a, tasks, None)
    ELSE [app |-> a, loads |-> tasks]

\* ownedTokenIds.map(id => id.toString())
IdStrings(tokenIds) == [k \in DOMAIN tokenIds |-> toString(tokenIds[k])]

\* catch (error) { ... } of mintHandler: TRUE when the block completes,
\* FALSE when error.message.includes throws out of it.
CatchCompletes(error) ==
    IF error.code = UserRejected THEN TRUE
    ELSE error.message # NoMessage

\* The page is not open.
NoPage ==
    /\ ethereum = FALSE
    /\ wallet = None
    /\ app = InitialApp
    /\ form = InitialForm
    /\ loads = [i \in LoadSlots |-> NoLoad]
    /\ nodeDown = FALSE

Init == Deployed /\ NoPage

CallMint(sender, mintAmount, value, cb) ==
    /\ last = NoCall
    /\ value <= balance[sender]
    /\ cb \in Callbacks(sender)
    /\ cb.at <= mintAmount
    /\ \E r \in {mint(World, sender, mintAmount, value, timestamp, cb)} :
           /\ Commit(Revert(World, r))
           /\ last' = [op |-> "mint", caller |-> sender, amount |-> mintAmount,
                       value |-> value, cb |-> cb, result |-> r.err,
                       inner |-> r.w.inner, ret |-> <<>>, pre |-> World]
    /\ UNCHANGED <<config, timestamp>>

CallWithdraw(sender, cb) ==
    /\ last = NoCall
    /\ Len(log) + (IF cb.act = "withdraw" THEN 2 ELSE 1) <= MaxLog
    /\ cb \in Receives(sender)
    /\ \E r \in {withdraw(World, sender, timestamp, cb)} :
           /\ Commit(Revert(World, r))
           /\ last' = [op |-> "withdraw", caller |-> sender, amount |-> 0,
                       value |-> 0, cb |-> cb, result |-> r.err,
                       inner |-> r.w.inner, ret |-> <<>>, pre |-> World]
    /\ UNCHANGED <<config, timestamp>>

CallSetCost(sender, newCost) ==
    /\ last = NoCall
    /\ \E r \in {setCost(World, sender, newCost)} :
           /\ Commit(Revert(World, r))
           /\ last' = [op |-> "setCost", caller |-> sender, amount |-> newCost,
                       value |-> 0, cb |-> NoCallback, result |-> r.err,
                       inner |-> None, ret |-> <<>>, pre |-> World]
    /\ UNCHANGED <<config, timestamp>>

\* A view call: it returns a value and writes nothing.
CallTokenURI(tokenId) ==
    /\ last = NoCall
    /\ \E r \in {tokenURI(World, tokenId)} :
           last' = [op |-> "tokenURI", caller |-> ZeroAddress, amount |-> tokenId,
                    value |-> 0, cb |-> NoCallback, result |-> r.err,
                    inner |-> None, ret |-> r.ret, pre |-> World]
    /\ UNCHANGED <<config, timestamp, cost, owners, ownedTokens, allTokens, balance, log,
                   mintCalls, received, withdrawn>>

\* A view call; caller holds the account the call asks about.
CallWalletOfOwner(a) ==
    /\ last = NoCall
    /\ \E r \in {walletOfOwner(World, a)} :
           last' = [op |-> "walletOfOwner", caller |-> a, amount |-> 0,
                    value |-> 0, cb |-> NoCallback, result |-> r.err,
                    inner |-> None, ret |-> r.ret, pre |-> World]
    /\ UNCHANGED <<config, timestamp, cost, owners, ownedTokens, allTokens, balance, log,
                   mintCalls, received, withdrawn>>

\* The transaction is mined and its receipt handed to the caller; the
\* contract takes the next call.
Receipt ==
    /\ last # NoCall
    /\ last' = NoCall
    /\ UNCHANGED <<config, timestamp, cost, owners, ownedTokens, allTokens, balance, log,
                   mintCalls, received, withdrawn>>

\* A later block: block.timestamp never decreases.
Tick ==
    /\ last = NoCall
    /\ timestamp < MaxTime
    /\ timestamp' = timestamp + 1
    /\ UNCHANGED <<config, cost, owners, ownedTokens, allTokens, balance, log, last,
                   mintCalls, received, withdrawn>>

Next ==
    \/ \E sender \in Accounts, mintAmount \in MintAmounts, value \in 0 .. InitialFunds :
           \E cb \in Callbacks(sender) :
               CallMint(sender, mintAmount, value, cb) /\ UNCHANGED client
    \/ \E sender \in Accounts : \E cb \in Receives(sender) :
           CallWithdraw(sender, cb) /\ UNCHANGED client
    \/ \E sender \in Accounts, newCost \in Costs :
           CallSetCost(sender, newCost) /\ UNCHANGED client
    \/ \E tokenId \in QueryIds : CallTokenURI(tokenId) /\ UNCHANGED client
    \/ \E a \in QueryAccounts : CallWalletOfOwner(a) /\ UNCHANGED client
    \/ Receipt /\ UNCHANGED client
    \/ Tick /\ UNCHANGED client

Spec == Init /\ [][Next]_vars

\* --------------------------------------------------- the client's actions
ledger == <<baseURI, baseExtension, cost, maxSupply, allowMintingOn, owner, owners,
            ownedTokens, allTokens, balance, log, timestamp, last, mintCalls, received,
            withdrawn>>

\* The page is opened in a browser with or without a wallet extension; App
\* is mounted and its effects have run.
PageOpened ==
    /\ ethereum \in BOOLEAN
    /\ wallet \in IF ethereum THEN {None} \cup WalletAccounts ELSE {None}
    /\ \E r \in {isLoadingEffect(FALSE, InitialApp, [i \in LoadSlots |-> NoLoad])} :
           /\ app = r.app
           /\ loads = r.loads
    /\ form = InitialForm
    /\ nodeDown \in BOOLEAN

InitClient == Deployed /\ PageOpened

\* handleAccountsChanged(accounts), on the wallet's accountsChanged event;
\* the listener is registered only when window.ethereum is present.
AccountsChanged(accounts) ==
    /\ ethereum
    /\ wallet # (IF accounts = <<>> THEN None ELSE accounts[1])
    /\ wallet' = (IF accounts = <<>> THEN None ELSE accounts[1])
    /\ IF Len(accounts) > 0
       THEN /\ FreeSlot(loads)
            /\ \E r \in {loadBlockchainData(
                             [app EXCEPT !.account = accounts[1],
                                         !.isWalletConnected = TRUE],
                             loads, accounts[1])} :
                   /\ Render(r.app, form)
                   /\ loads' = r.loads
       ELSE /\ Render([app EXCEPT !.account = None, !.isWalletConnected = FALSE,
                                  !.balance = 0, !.ownedNFTs = <<>>], form)
            /\ loads' = loads
    /\ UNCHANGED <<ledger, ethereum, nodeDown>>

\* connectWallet, from the user's approval of eth_requestAccounts on; without
\* window.ethereum, or when the user refuses, it only alerts.
ConnectWallet(a) ==
    /\ ethereum
    /\ ~(app.isWalletConnected /\ app.account # None)
    /\ wallet \in {None, a}
    /\ FreeSlot(loads)
    /\ wallet' = a
    /\ \E r \in {loadBlockchainData(
                     [app EXCEPT !.account = a, !.isWalletConnected = TRUE],
                     loads, a)} :
           /\ Render(r.app, form)
           /\ loads' = r.loads
    /\ UNCHANGED <<ledger, ethereum, nodeDown>>

\* await window.ethereum.request({ method: 'eth_accounts' }) answers.
LoadAccounts(i) ==
    /\ loads[i].pc = 1
    /\ IF wallet # None
       THEN /\ Render([app EXCEPT !.account = wallet, !.isWalletConnected = TRUE], form)
            /\ loads' = [loads EXCEPT ![i] = [pc |-> 2, account |-> wallet]]
       ELSE /\ Render([app EXCEPT !.isLoading = FALSE], form)
            /\ loads' = [loads EXCEPT ![i] = NoLoad]
    /\ UNCHANGED <<ledger, ethereum, wallet, nodeDown>>

\* await nft.allowMintingOn(), nft.maxSupply(), nft.totalSupply(), nft.cost()
LoadContractData(i) ==
    /\ loads[i].pc \in 2 .. 5
    /\ ~nodeDown
    /\ Render(CASE loads[i].pc = 2 ->
                     [app EXCEPT !.revealTime = toString(allowMintingOn) \o <<"0", "0", "0">>]
                 [] loads[i].pc = 3 -> [app EXCEPT !.maxSupply = maxSupply]
                 [] loads[i].pc = 4 -> [app EXCEPT !.totalSupply = totalSupply(World)]
                 [] loads[i].pc = 5 -> [app EXCEPT !.cost = cost],
              form)
    /\ loads' = [loads EXCEPT ![i].pc = @ + 1]
    /\ UNCHANGED <<ledger, ethereum, wallet, nodeDown>>

\* await nft.balanceOf(currentAccount)
LoadBalance(i) ==
    /\ loads[i].pc = 6
    /\ ~nodeDown
    /\ Render([app EXCEPT !.balance = balanceOf(World, loads[i].account)], form)
    /\ loads' = [loads EXCEPT ![i].pc = 7]
    /\ UNCHANGED <<ledger, ethereum, wallet, nodeDown>>

\* await nft.walletOfOwner(currentAccount), to the end of the try block
LoadOwned(i) ==
    /\ loads[i].pc = 7
    /\ ~nodeDown
    /\ Render([app EXCEPT !.ownedNFTs = IdStrings(walletOfOwner(World, loads[i].account).ret),
                          !.isLoading = FALSE], form)
    /\ loads' = [loads EXCEPT ![i] = NoLoad]
    /\ UNCHANGED <<ledger, ethereum, wallet, nodeDown>>

\* An awaited call of the contract throws: catch (error) { setIsLoading(false) }
LoadFails(i) ==
    /\ nodeDown
    /\ loads[i].pc >= 2
    /\ Render([app EXCEPT !.isLoading = FALSE], form)
    /\ loads' = [loads EXCEPT ![i] = NoLoad]
    /\ UNCHANGED <<ledger, ethereum, wallet, nodeDown>>

\* mintHandler, on a submit of the form, up to the await of mint; the form
\* shows its button only while its own isWaiting is false. getSigner() of a
\* Web3Provider returns at once, so the await before it yields to no other
\* handler: the signer stands for the wallet's first account, looked up when
\* the transaction is sent.
SubmitMint ==
    /\ Shown(app)
    /\ ~form.isWaiting
    /\ \E h \in HandlerSlots : form.runs[h] = NoRun
    /\ IF ~app.provider \/ ~app.nft
       THEN UNCHANGED <<app, form>>
       ELSE LET h == CHOOSE h \in HandlerSlots : form.runs[h] = NoRun
            IN  Render(app, [isWaiting |-> TRUE,
                             runs |-> [form.runs EXCEPT ![h] =
                                          [pc |-> "send", cost |-> app.cost,
                                           live |-> TRUE]]])
    /\ UNCHANGED <<ledger, ethereum, wallet, loads, nodeDown>>

\* await nft.connect(signer).mint(1, { value: cost }): the transaction is
\* sent and executed.
MintSend(h) ==
    /\ form.runs[h].pc = "send"
    /\ ~nodeDown
    /\ wallet # None
    /\ CallMint(wallet, 1, form.runs[h].cost, NoCallback)
    /\ Render(app, [form EXCEPT !.runs[h].pc = "wait"])
    /\ UNCHANGED <<ethereum, wallet, loads, nodeDown>>

\* The rest of mintHandler after the try statement; completes tells whether
\* control reaches setIsWaiting(false); setIsLoading(true).
MintEnds(h, completes) ==
    /\ (completes /\ ethereum /\ ~app.isLoading) => FreeSlot(loads)
    /\ IF completes
       THEN \E r \in {isLoadingEffect(app.isLoading, [app EXCEPT !.isLoading = TRUE],
                                      loads)} :
                /\ Render(r.app, [isWaiting |-> IF form.runs[h].live THEN FALSE
                                                ELSE form.isWaiting,
                                  runs |-> [form.runs EXCEPT ![h] = NoRun]])
                /\ loads' = r.loads
       ELSE /\ Render(app, [form EXCEPT !.runs[h] = NoRun])
            /\ loads' = loads

\* The wallet or the provider throws instead of sending: the catch block runs.
MintThrows(h, error) ==
    /\ form.runs[h].pc = "send"
    /\ MintEnds(h, CatchCompletes(error))
    /\ UNCHANGED <<ledger, ethereum, wallet, nodeDown>>

\* await transaction.wait(): the receipt arrives; a reverted transaction
\* throws an Error with a message.
MintMined(h) ==
    /\ form.runs[h].pc = "wait"
    /\ Receipt
    /\ IF last.result = Ok THEN MintEnds(h, TRUE)
       ELSE \E error \in {[code |-> 0, message |-> "execution reverted"]} :
                MintEnds(h, CatchCompletes(error))
    /\ UNCHANGED <<ethereum, wallet, nodeDown>>

NextClient ==
    \/ \E accounts \in {<<>>} \cup {<<a>> : a \in WalletAccounts} : AccountsChanged(accounts)
    \/ \E a \in WalletAccounts : ConnectWallet(a)
    \/ \E i \in LoadSlots : LoadAccounts(i)
    \/ \E i \in LoadSlots : LoadContractData(i)
    \/ \E i \in LoadSlots : LoadBalance(i)
    \/ \E i \in LoadSlots : LoadOwned(i)
    \/ \E i \in LoadSlots : LoadFails(i)
    \/ SubmitMint
    \/ \E h \in HandlerSlots : MintSend(h)
    \/ \E h \in HandlerSlots, error \in ErrorShapes : MintThrows(h, error)
    \/ \E h \in HandlerSlots : MintMined(h)
    \/ Tick /\ UNCHANGED client

SpecClient == InitClient /\ [][NextClient]_vars

\* ------------------------------------------------- reading the latest call
IsMint == last.op = "mint"
Failed == last.result # Ok
PreSupply == Len(last.pre.allTokens)        \* totalIssued when the call started
Price == last.pre.cost * last.amount        \* unitCost * quantity, unbounded
Opened == timestamp >= allowMintingOn       \* the call time is timestamp
NothingIssued == allTokens = last.pre.allTokens /\ owners = last.pre.owners
                 /\ ownedTokens = last.pre.ownedTokens

\* ---------------------------------------------------------------- claims

\* C1: in every reachable state the number of tokens issued (totalSupply) is
\* at most maxSupply.
SupplyBound == Len(allTokens) <= maxSupply

\* A mint has just filled the collection up to the cap.
SupplyBoundWitness ==
    IsMint /\ last.result = Ok /\ PreSupply < maxSupply /\ Len(allTokens) = maxSupply

\* C2 as stated: a mint whose quantity would push totalIssued past maxSupply
\* fails with SupplyExceeded and issues no token.
ExceedingMintFailsWithSupplyExceeded ==
    (IsMint /\ PreSupply + last.amount > maxSupply)
        => (last.result = SupplyExceeded /\ NothingIssued)

\* C2 amended: a mint whose quantity would push totalIssued past maxSupply
\* always fails and issues no token; the error is SupplyExceeded when the
\* three earlier checks pass and totalIssued + quantity fits in a word.
ExceedingMintFails ==
    (IsMint /\ PreSupply + last.amount > maxSupply)
        => /\ Failed
           /\ NothingIssued
           /\ (Opened /\ Price <= MaxUint /\ last.value >= Price
                 /\ PreSupply + last.amount <= MaxUint)
                => last.result = SupplyExceeded

\* A paid-for mint after opening was turned down for the supply cap alone.
ExceedingMintWitness ==
    /\ IsMint /\ PreSupply + last.amount > maxSupply
    /\ Opened /\ last.value >= Price /\ PreSupply > 0
    /\ last.result = SupplyExceeded

\* C3 as stated: a mint with paymentAmount < unitCost * quantity fails with
\* InsufficientPayment whatever the quantity and the call time.
UnderpaidMintFailsWithInsufficientPayment ==
    (IsMint /\ last.value < Price) => last.result = InsufficientPayment

\* C3 amended: a mint with paymentAmount < unitCost * quantity always fails
\* and issues no token, whatever the quantity and the call time; the error is
\* MintingNotYetOpen before mintOpensAt, and from mintOpensAt on it is
\* InsufficientPayment when unitCost * quantity fits in a word.
UnderpaidMintFails ==
    (IsMint /\ last.value < Price)
        => /\ Failed
           /\ NothingIssued
           /\ ~Opened => last.result = MintingNotYetOpen
           /\ (Opened /\ Price <= MaxUint) => last.result = InsufficientPayment

\* An underpaid mint was turned down for its payment while supply was left.
UnderpaidMintWitness ==
    /\ IsMint /\ last.value < Price /\ last.value > 0
    /\ PreSupply + last.amount <= maxSupply
    /\ last.result = InsufficientPayment

\* The first check that fails, in the order time gate, quantity, payment,
\* supply, on unbounded integers.
FirstFailing ==
    IF ~Opened THEN MintingNotYetOpen
    ELSE IF last.amount < 1 THEN InvalidQuantity
    ELSE IF last.value < Price THEN InsufficientPayment
    ELSE IF PreSupply + last.amount > maxSupply THEN SupplyExceeded
    ELSE Ok

\* The same with the word width: a product or a sum that does not fit in a
\* word fails the call where it is computed.
FirstFailingChecked ==
    IF ~Opened THEN MintingNotYetOpen
    ELSE IF last.amount < 1 THEN InvalidQuantity
    ELSE IF Price > MaxUint THEN ArithmeticPanic
    ELSE IF last.value < Price THEN InsufficientPayment
    ELSE IF PreSupply + last.amount > MaxUint THEN ArithmeticPanic
    ELSE IF PreSupply + last.amount > maxSupply THEN SupplyExceeded
    ELSE Ok

\* C4 as stated: when preconditions fail, the error is that of the first
\* failing one in the order time gate, quantity, payment, supply.
FirstFailingPreconditionWins ==
    (IsMint /\ FirstFailing # Ok) => last.result = FirstFailing

\* C4 amended: the error is that of the first failing precondition in the
\* order time gate, quantity, payment, supply, provided unitCost * quantity
\* and totalIssued + quantity fit in a word; a product or sum that does not
\* fit fails the call at that check with an arithmetic panic instead.
FirstFailingCheckWins ==
    (IsMint /\ FirstFailingChecked # Ok) => last.result = FirstFailingChecked

\* Before opening, a call with quantity 0, no payment and no supply left to
\* ask for: all the checks it can fail, and the time gate answers.
FirstFailingWitness ==
    \/ /\ IsMint /\ ~Opened /\ last.amount < 1 /\ last.result = MintingNotYetOpen
    \/ /\ IsMint /\ Opened /\ last.value < Price /\ Price <= MaxUint
       /\ PreSupply + last.amount > maxSupply /\ last.result = InsufficientPayment

\* The ids a..b in increasing order.
IdSeq(a, b) == [k \in 1 .. (b - a + 1) |-> a + k - 1]
NewIds == (PreSupply + 1) .. (PreSupply + last.amount)
Minted(w) == {id \in Ids : w.owners[id] # ZeroAddress}

RECURSIVE IssuedBefore(_)
\* How many tokens the first k successful mint calls issued.
IssuedBefore(k) == IF k = 0 THEN 0 ELSE IssuedBefore(k - 1) + mintCalls[k].amount

\* C6: after N tokens have been issued by any successful mint calls, the
\* issued ids are exactly 1..N, and the k-th call (in the order the calls
\* started) owns the block of ids that follows the blocks of the calls
\* before it: each id belongs to the account whose call issued it, and an
\* earlier call's ids are smaller than a later call's.  Stated of the ledger
\* between calls, where every call's ledger is found again.
IdAssignment ==
    last.op = None =>
    LET N == Len(allTokens)
    IN  /\ Minted(World) = 1 .. N
        /\ {allTokens[k] : k \in 1 .. N} = 1 .. N
        /\ IssuedBefore(Len(mintCalls)) = N
        /\ \A k \in 1 .. Len(mintCalls) :
              \A id \in (IssuedBefore(k - 1) + 1) .. IssuedBefore(k) :
                 owners[id] = mintCalls[k].account

\* Two calls by different accounts have issued tokens.
IdAssignmentWitness ==
    /\ Len(mintCalls) >= 2
    /\ mintCalls[1].account # mintCalls[2].account
    /\ owners[1] = mintCalls[1].account

\* C7: every id in 1..totalIssued has exactly one owner, no id outside
\* 1..totalIssued has one (id 0 is never issued), and exactly totalIssued
\* tokens exist: each is enumerated once for its owner and once overall.
\* Stated of the ledger between calls: each call's step hands its ledger on,
\* unchanged, to the state its receipt leaves.
OwnershipConsistent ==
    last.op = None =>
    LET N == Len(allTokens)
        Slots(id) == {<<a, k>> \in Accounts \X (1 .. N) :
                         k <= Len(ownedTokens[a]) /\ ownedTokens[a][k] = id}
    IN  /\ \A id \in Ids : (owners[id] # ZeroAddress) <=> (id \in 1 .. N)
        /\ \A id \in 1 .. N :
              LET held == Slots(id)
              IN  /\ owners[id] \in Accounts
                  /\ Cardinality(held) = 1
                  /\ \A slot \in held : slot[1] = owners[id]
                  /\ Cardinality({k \in 1 .. N : allTokens[k] = id}) = 1
        /\ \A a \in Accounts : \A k \in 1 .. Len(ownedTokens[a]) :
              ownedTokens[a][k] \in 1 .. N

\* The collection is sold out and held by more than one account.
OwnershipConsistentWitness ==
    /\ Len(allTokens) = maxSupply
    /\ Cardinality({owners[id] : id \in 1 .. maxSupply}) > 1
    /\ last.op = None

\* C8: the contract's balance is the sum of the payments of the successful
\* mint calls minus the sum of the amounts successful withdraw calls paid out.
BalanceAccounting == balance[NFTContract] = received - withdrawn

\* A paid mint after an earlier withdrawal of earlier payments.
BalanceAccountingWitness ==
    /\ IsMint /\ last.result = Ok /\ last.value > 0
    /\ withdrawn > 0 /\ balance[NFTContract] > 0

\* C9: a failed mint leaves totalIssued, every token's owner, the contract
\* balance (and the caller's), unitCost and the event log as they were.
FailedMintChangesNothing ==
    (IsMint /\ Failed)
        => /\ owners = last.pre.owners
           /\ ownedTokens = last.pre.ownedTokens
           /\ allTokens = last.pre.allTokens
           /\ balance = last.pre.balance
           /\ cost = last.pre.cost
           /\ log = last.pre.log

\* A mint failed at its second token, after the first had been issued.
FailedMintWitness ==
    /\ IsMint /\ last.cb.at > 1
    /\ last.result \in {ReceiverRejected, AlreadyMinted}

\* C10: while the call time is before mintOpensAt, every mint, whatever its
\* quantity, payment and caller, fails with MintingNotYetOpen and issues no
\* token.
PreOpenRejectsAll ==
    (IsMint /\ ~Opened) => (last.result = MintingNotYetOpen /\ NothingIssued)

\* Before opening the owner asked for one token it could pay for.
PreOpenWitness ==
    /\ IsMint /\ ~Opened /\ last.caller = owner
    /\ last.amount >= 1 /\ last.value >= Price /\ PreSupply + last.amount <= maxSupply
    /\ last.result = MintingNotYetOpen

\* The world is as it was before the latest call.
WorldUnchanged ==
    /\ owners = last.pre.owners
    /\ ownedTokens = last.pre.ownedTokens
    /\ allTokens = last.pre.allTokens
    /\ balance = last.pre.balance
    /\ cost = last.pre.cost
    /\ log = last.pre.log

HasWithdrawEvent(l) == \E k \in 1 .. Len(l) : l[k].event = "Withdraw"

NonOwnerIsRefused ==
    (last.op \in {"withdraw", "setCost"} /\ last.caller # owner)
        => (last.result = Unauthorized /\ WorldUnchanged)

\* An account other than the owner tried to withdraw a positive balance.
NonOwnerIsRefusedWitness ==
    /\ last.op = "withdraw" /\ last.caller # owner
    /\ last.pre.balance[NFTContract] > 0
    /\ last.result = Unauthorized

IsWithdraw == last.op = "withdraw"
PreBalance == last.pre.balance[NFTContract]     \* the contract balance when the call started
WithdrawEvent(b, a) == [event |-> "Withdraw", amount |-> b, account |-> a]
TokensUnchanged ==
    /\ owners = last.pre.owners
    /\ ownedTokens = last.pre.ownedTokens
    /\ allTokens = last.pre.allTokens

\* What a withdraw of b by the owner does when nothing else happens in the call.
PaidOutExactly ==
    /\ balance[NFTContract] = 0
    /\ balance[owner] = last.pre.balance[owner] + PreBalance
    /\ \A a \in Accounts \ {owner} : balance[a] = last.pre.balance[a]
    /\ log = Append(last.pre.log, WithdrawEvent(PreBalance, owner))
    /\ TokensUnchanged
    /\ cost = last.pre.cost

RejectedWithdrawFails ==
    (IsWithdraw /\ last.caller = owner /\ last.cb.act = "reject")
        => (last.result = TransferFailed /\ WorldUnchanged)

\* The owner's account rejected the transfer of a positive balance.
RejectedWithdrawWitness ==
    /\ IsWithdraw /\ last.caller = owner /\ last.cb.act = "reject"
    /\ PreBalance > 0 /\ balance[NFTContract] = PreBalance
    /\ last.result = TransferFailed

IsSetCost == last.op = "setCost"

\* How a mint of quantity by Minter with payment value would end if it were
\* the next call.
NextMint(quantity, value) ==
    mint(World, Minter, quantity, value, timestamp, NoCallback).err

\* C15: setCost called by the owner succeeds for every newCost, zero
\* included, leaves unitCost = newCost and changes nothing else; the next
\* mint is priced with newCost: it fails the payment check exactly when its
\* payment is below newCost * quantity, so that after setCost(0) a payment
\* of 0 passes.
OwnerSetsCost ==
    (IsSetCost /\ last.caller = owner)
        => /\ last.result = Ok
           /\ cost = last.amount
           /\ TokensUnchanged
           /\ balance = last.pre.balance
           /\ log = last.pre.log
           /\ \A quantity \in 1 .. SupplyCap, value \in 0 .. InitialFunds :
                 (Opened /\ last.amount * quantity <= MaxUint)
                    => ((NextMint(quantity, value) = InsufficientPayment)
                          <=> (value < last.amount * quantity))

\* After opening the owner dropped a positive price to zero.
OwnerSetsCostWitness ==
    /\ IsSetCost /\ last.caller = owner /\ last.result = Ok
    /\ last.amount = 0 /\ last.pre.cost > 0 /\ Opened
    /\ NextMint(1, 0) = Ok

\* C16: after any sequence of calls maxSupply, mintOpensAt, baseMetadataURI
\* and metadataExtension have their deployment values, and a call leaves
\* unitCost different from what it was only if it is a successful setCost by
\* the owner, or a withdraw during which the owner made one.
ConfigurationFrozen ==
    /\ maxSupply = SupplyCap
    /\ allowMintingOn = OpensAfter
    /\ baseURI = DeployedBaseURI
    /\ baseExtension = DeployedBaseExtension
    /\ (last.op # None /\ cost # last.pre.cost)
          => \/ IsSetCost /\ last.caller = owner /\ last.result = Ok
                /\ cost = last.amount
             \/ IsWithdraw /\ last.caller = owner /\ last.result = Ok
                /\ last.cb.act = "setCost" /\ last.inner = Ok
                /\ cost = last.cb.amount

\* A paid mint at a price the owner had set after an earlier mint and a
\* withdrawal.
ConfigurationFrozenWitness ==
    /\ IsMint /\ last.result = Ok /\ last.value > 0
    /\ Len(last.pre.allTokens) > 0
    /\ HasWithdrawEvent(log)
    /\ cost = last.pre.cost /\ cost > 0

\* Reading a decimal numeral back: its digits, its value.
DigitValue(c) == CHOOSE k \in 0 .. 9 : DigitChars[k + 1] = c
IsNumeral(d) ==
    /\ Len(d) >= 1
    /\ \A k \in 1 .. Len(d) : \E v \in 0 .. 9 : DigitChars[v + 1] = d[k]
    /\ Len(d) > 1 => d[1] # "0"
RECURSIVE NumeralValue(_)
NumeralValue(d) ==
    IF d = <<>> THEN 0
    ELSE NumeralValue(SubSeq(d, 1, Len(d) - 1)) * 10 + DigitValue(d[Len(d)])

\* uri is baseURI, then the decimal numeral of id, then baseExtension.
IsMetadataURI(uri, id) ==
    LET lead == Len(baseURI)
        tail == Len(baseExtension)
    IN  /\ Len(uri) > lead + tail
        /\ SubSeq(uri, 1, lead) = baseURI
        /\ SubSeq(uri, Len(uri) - tail + 1, Len(uri)) = baseExtension
        /\ IsNumeral(SubSeq(uri, lead + 1, Len(uri) - tail))
        /\ NumeralValue(SubSeq(uri, lead + 1, Len(uri) - tail)) = id

\* C17: in every reachable state tokenURI(id) returns baseURI, the decimal
\* numeral of id and baseExtension when 1 <= id <= totalIssued, and fails
\* with UnknownToken for every other id; an id that had a URI before a call
\* has the same URI after it; and the numeral toString writes reads back as
\* the value it was given.  (Every ledger a call leaves is also the ledger
\* of the state that follows its receipt, where all ids are tried.)
MetadataDeterminism ==
    /\ last.op = None
          => \A id \in QueryIds :
                LET r == tokenURI(World, id)
                IN  /\ id \in 1 .. Len(allTokens)
                          => (r.err = Ok /\ IsMetadataURI(r.ret, id))
                    /\ id \notin 1 .. Len(allTokens) => r.err = UnknownToken
                    /\ IsNumeral(toString(id)) /\ NumeralValue(toString(id)) = id
    /\ last.op \in {"mint", "withdraw", "setCost"}
          => \A id \in QueryIds :
                LET before == tokenURI(last.pre, id)
                IN  before.err = Ok => tokenURI(World, id) = before
    /\ last.op = "tokenURI"
          => /\ WorldUnchanged
             /\ IF last.amount \in 1 .. Len(allTokens)
                THEN last.result = Ok /\ IsMetadataURI(last.ret, last.amount)
                ELSE last.result = UnknownToken

\* The URI of the second token was asked for and returned.
MetadataDeterminismWitness ==
    /\ last.op = "tokenURI" /\ last.amount = 2 /\ last.result = Ok
    /\ last.ret = baseURI \o <<"2">> \o baseExtension

\* An increasing sequence of ids.
Ascending(ids) == \A j, k \in 1 .. Len(ids) : j < k => ids[j] < ids[k]
OwnedBy(a) == {id \in Ids : owners[id] = a}

\* C18: walletOfOwner(account) changes nothing and never fails; with no
\* transfers it returns the ids owned by account, each once, in ascending
\* order, and as many as balanceOf(account).
WalletListsOwnedIds ==
    /\ last.op = None
          => \A a \in QueryAccounts :
                LET r == walletOfOwner(World, a)
                IN  /\ r.err = Ok
                    /\ {r.ret[k] : k \in 1 .. Len(r.ret)} = OwnedBy(a)
                    /\ Ascending(r.ret)
                    /\ Len(r.ret) = balanceOf(World, a)
                    /\ Len(r.ret) = Cardinality(OwnedBy(a))
    /\ last.op = "walletOfOwner"
          => /\ WorldUnchanged
             /\ last.result = Ok
             /\ {last.ret[k] : k \in 1 .. Len(last.ret)} = OwnedBy(last.caller)
             /\ Ascending(last.ret)
             /\ Len(last.ret) = Cardinality(OwnedBy(last.caller))

\* The wallet of an account that minted its two tokens in two calls.
WalletListsOwnedIdsWitness ==
    /\ last.op = "walletOfOwner" /\ last.result = Ok
    /\ last.ret = <<1, 2>> /\ Len(mintCalls) = 2

\* C19: once totalIssued = maxSupply, a call leaves it there: every mint,
\* also one made from inside a callback, fails and issues nothing, while
\* tokenURI of an issued id, walletOfOwner, and the withdraw of an owner who
\* accepts the ether succeed as they do before the collection is sold out.
SoldOutIsTerminal ==
    (last.op # None /\ PreSupply = maxSupply)
        => /\ Len(allTokens) = maxSupply
           /\ TokensUnchanged
           /\ IsMint => Failed
           /\ last.cb.act \in {"reenter", "mint"} => last.inner # Ok
           /\ (IsWithdraw /\ last.caller = owner /\ last.cb.act # "reject")
                 => /\ last.result = Ok
                    /\ balance[owner] >= last.pre.balance[owner]
                    /\ last.inner # Ok => balance[NFTContract] = 0
           /\ (last.op = "tokenURI" /\ last.amount \in 1 .. maxSupply)
                 => last.result = Ok
           /\ last.op = "walletOfOwner" => last.result = Ok

\* With the collection sold out, the owner withdrew the payments.
SoldOutIsTerminalWitness ==
    /\ IsWithdraw /\ last.result = Ok
    /\ PreSupply = maxSupply /\ PreBalance > 0
    /\ balance[NFTContract] = 0

\* What a successful mint does with the payment and issues for it.
PaymentKept ==
    /\ balance[NFTContract] = PreBalance + last.value
    /\ balance[last.caller] = last.pre.balance[last.caller] - last.value
    /\ \A a \in Accounts \ {last.caller} : balance[a] = last.pre.balance[a]
    /\ received = last.pre.received + last.value

MintEvent(q, a) == [event |-> "Mint", amount |-> q, account |-> a]
RECURSIVE EventsOf(_, _), AmountIn(_)
\* The entries of a log of one kind, in order; the sum of the amounts of a log.
EventsOf(l, kind) ==
    IF l = <<>> THEN <<>>
    ELSE IF l[1].event = kind THEN <<l[1]>> \o EventsOf(Tail(l), kind)
    ELSE EventsOf(Tail(l), kind)
AmountIn(l) == IF l = <<>> THEN 0 ELSE l[1].amount + AmountIn(Tail(l))

\* What a call nested in the latest call appended, if it succeeded.
NestedEvents ==
    IF last.inner # Ok THEN <<>>
    ELSE IF last.cb.act \in {"reenter", "mint"} THEN <<MintEvent(last.cb.amount, last.caller)>>
    ELSE IF last.cb.act = "withdraw" THEN <<WithdrawEvent(0, last.caller)>>
    ELSE <<>>

\* C21: the log only grows, by one entry for each successful call, appended
\* when the call completes: a successful mint appends Mint(quantity, caller)
\* and a successful withdraw Withdraw(amount, owner), after the entry of a
\* call nested in it; a failed call, setCost and the view calls append
\* nothing.  So the Mint entries are the successful mint calls in the order
\* they completed: as many as those calls, their quantities adding up to
\* totalIssued, and the Withdraw amounts to what was paid out.
LogRecordsSuccessfulCalls ==
    /\ last.op # None
          => log = last.pre.log \o
                (IF last.result # Ok \/ last.op \notin {"mint", "withdraw"} THEN <<>>
                 ELSE NestedEvents \o
                      <<IF IsMint THEN MintEvent(last.amount, last.caller)
                        ELSE WithdrawEvent(PreBalance, last.caller)>>)
    /\ last.op = None
          => /\ LET mints == EventsOf(log, "Mint")
                IN  /\ Len(mints) = Len(mintCalls)
                    /\ AmountIn(mints) = Len(allTokens)
             /\ AmountIn(EventsOf(log, "Withdraw")) = withdrawn
             /\ \A k \in 1 .. Len(log) : log[k].event \in {"Mint", "Withdraw"}

\* The second of two successful mint calls by different accounts, with a
\* withdrawal between them, has been logged after them.
LogRecordsSuccessfulCallsWitness ==
    /\ IsMint /\ last.result = Ok
    /\ Len(log) = 3
    /\ log[1].event = "Mint" /\ log[2].event = "Withdraw" /\ log[3].event = "Mint"
    /\ log[1].account # log[3].account

\* C22: totalIssued is 0 before any call and a call never lowers it; the ids
\* issued before a call are still issued after it, in the same places of the
\* enumeration and with the same owners, and no id is enumerated twice.
IssuedStaysIssued ==
    /\ (log = <<>> /\ mintCalls = <<>>) => Len(allTokens) = 0
    /\ last.op # None
          => /\ Len(allTokens) >= PreSupply
             /\ SubSeq(allTokens, 1, PreSupply) = last.pre.allTokens
             /\ \A id \in Ids :
                   last.pre.owners[id] # ZeroAddress => owners[id] = last.pre.owners[id]
    /\ Cardinality({allTokens[k] : k \in 1 .. Len(allTokens)}) = Len(allTokens)

\* A recipient took the id its outer call was about to issue, and the outer
\* call failed on the id that was already there.
IssuedStaysIssuedWitness ==
    /\ IsMint /\ last.result = AlreadyMinted
    /\ last.cb.act = "reenter" /\ last.cb.at < last.amount
    /\ allTokens = last.pre.allTokens

\* C23: the owner is the deploying account, whatever mint, withdraw, setCost
\* and view calls have been made and by whom.
OwnerIsFixed == owner = Deployer

\* After a mint and a withdrawal, an account other than the owner tried to
\* set the price.
OwnerIsFixedWitness ==
    /\ IsSetCost /\ last.caller = Minter
    /\ Len(allTokens) > 0 /\ HasWithdrawEvent(log)
    /\ owner = Deployer

\* The four guards of mint are met with equality.
AtBoundary ==
    /\ IsMint
    /\ timestamp = allowMintingOn
    /\ last.amount >= 1
    /\ last.value = Price
    /\ PreSupply + last.amount = maxSupply

ProductOverflows == Price > MaxUint
\* totalIssued + quantity does not fit the word.
SumOverflows == PreSupply + last.amount > MaxUint

\* C31: a mint whose unitCost * quantity or totalIssued + quantity exceeds
\* 2^WordBits - 1 fails and changes no state. Once minting is open, a product
\* that does not fit ends the call on the arithmetic check, before the payment
\* is compared; a sum that does not fit ends it there too when the payment
\* covers the (fitting) product, and on the payment check otherwise.
ChecksDoNotWrap ==
    (IsMint /\ (ProductOverflows \/ SumOverflows))
        => /\ Failed
           /\ WorldUnchanged
           /\ ~Opened => last.result = MintingNotYetOpen
           /\ (Opened /\ ProductOverflows) => last.result = ArithmeticPanic
           /\ (Opened /\ ~ProductOverflows)
                 => last.result = (IF last.value >= Price THEN ArithmeticPanic
                                   ELSE InsufficientPayment)

\* With a token issued and a price of nothing, a mint of 2^WordBits - 1
\* tokens ended on the sum.
ChecksDoNotWrapWitness ==
    /\ IsMint /\ Opened
    /\ SumOverflows /\ ~ProductOverflows
    /\ PreSupply >= 1
    /\ last.result = ArithmeticPanic

\* The mintHandler invocations in flight.
Running == {h \in HandlerSlots : form.runs[h].pc # "idle"}

\* No data load is in flight.
LoadsDone == \A i \in LoadSlots : loads[i] = NoLoad

\* The page shows an account as connected.
ShowsAccount == app.isWalletConnected /\ app.account # None

\* The displayed balance and collection are the ledger's for the account shown.
ShowsHoldingsOf(a) ==
    /\ app.balance = balanceOf(World, a)
    /\ app.ownedNFTs = IdStrings(ownedTokens[a])

\* C24 as stated: after any sequence of accountsChanged events, once all
\* pending loads have completed (the node answering their calls, no mint
\* under way), the displayed balance and ownedNFTs are those of the account shown
\* as connected.
SwitchShowsCurrentAccount ==
    (LoadsDone /\ ~nodeDown /\ Running = {} /\ ShowsAccount)
        => ShowsHoldingsOf(app.account)

\* C25 as stated: after a confirmed mint from the client, once the loads it
\* and the wallet's events set off have completed without an error, the
\* displayed totalSupply, balance and ownedNFTs are the ledger's for the
\* connected account.
MintRefreshesDisplay ==
    (Len(mintCalls) > 0 /\ LoadsDone /\ ~nodeDown /\ Running = {} /\ ShowsAccount)
        => /\ app.totalSupply = totalSupply(World)
           /\ ShowsHoldingsOf(app.account)

\* C27 as stated: isWaiting is set only with provider and contract present,
\* and once the mintHandler of the form on the page has ended, whatever was
\* thrown, isWaiting is false.
WaitingIsReset ==
    /\ form.isWaiting => (app.provider /\ app.nft)
    /\ (\A h \in Running : ~form.runs[h].live) => ~form.isWaiting

\* C28 as stated: from an accountsChanged event with no account until a
\* later connect or account change, account is null, isWalletConnected
\* false, balance 0 and ownedNFTs empty, whatever loads complete meanwhile
\* (none of them on an error).
DisconnectStaysCleared ==
    (ethereum /\ wallet = None /\ ~nodeDown)
        => /\ app.account = None
           /\ ~app.isWalletConnected
           /\ app.balance = 0
           /\ app.ownedNFTs = <<>>

\* C29 as stated: while isLoading is true a data load is under way, which
\* sets it to false when it ends.
LoadingHasLoad == app.isLoading => ~LoadsDone

\* C32 as stated: at most one mintHandler invocation is in flight, and a
\* transaction the client has sent is mint(1) paying the cost the page
\* showed when the form was submitted.
OneMintInFlight ==
    /\ Cardinality(Running) <= 1
    /\ \A h \in Running :
          form.runs[h].pc = "wait"
              => /\ IsMint
                 /\ last.amount = 1
                 /\ last.value = form.runs[h].cost

=============================================================================
